---------------------------- MODULE Spec2Model ----------------------------
(***************************************************************************)
(* Model of the lynx archetype storage engine: the SimpleArchetype         *)
(* (src/src/ecs/simple_archetype.rs), the code the Signature derive macro  *)
(* generates for a record-group (src/lynx-derive/src/lib.rs) and the       *)
(* byte buffers of SimpleColumn                                            *)
(* (src/src/data_structures/simple_column.rs).                             *)
(*                                                                         *)
(* It also holds a Column used on its own, as the Column test does, and    *)
(* the identity counter of the Component derive macro.                     *)
(*                                                                         *)
(* A Column is a raw allocation: the model keeps its true allocated byte   *)
(* size (alloc) and its bytes.  Bytes of `data` past `alloc` are memory    *)
(* next to the allocation that an out-of-bounds write reached.             *)
(***************************************************************************)
EXTENDS Integers, Sequences, FiniteSets, TLC

(***************************************************************************)
(* Bounds of the model.                                                    *)
(***************************************************************************)
\* number of rows an archetype may reach
MaxRows == 8
\* number of leading rows whose value is chosen freely among Vals; the rows
\* after them carry the first value
MaxVaried == 1
\* number of direct calls of create, set_entity_count and insert_component
MaxMisuse == 1
\* largest count handed to set_entity_count
MaxCount == 1
\* largest field_position handed to get / get_mut
MaxPos == 2

\* largest capacity, in elements, a Column used on its own is resized to
MaxCap == 2

\* number of resizes of a Column used on its own
MaxResizes == 2

\* the row values an insertion may carry (a tag that determines every byte)
Vals == {1, 2}

\* the byte values found behind the argument of fill
Junk == {0, 255}

(***************************************************************************)
(* Value types.                                                            *)
(***************************************************************************)
\* byte size of the primitive types used by the declared components and by
\* the Column test (ref: a thin reference, str_ref: a &str)
PrimSize == [u8 |-> 1, u32 |-> 4, f32 |-> 4, f64 |-> 8,
             ref |-> 8, str_ref |-> 16]

Primitives == DOMAIN PrimSize

\* the fields of the composite value types
Fields ==
    [Player |-> <<"u32">>,
     Vector2 |-> <<"f32", "f32">>,
     PhysicsMaterial |-> <<"f64", "f64">>,
     RigidBody |-> <<"PhysicsMaterial", "f64", "f64", "Vector2", "Vector2">>,
     Pointers |-> <<"str_ref", "ref", "ref", "ref">>,
     Enemy |-> <<>>]

Composites == DOMAIN Fields

Types == Primitives \cup Composites

\* the identity the derive macro hands out, in order of expansion
DerivedId == [Player |-> 1, Vector2 |-> 2, PhysicsMaterial |-> 3,
              RigidBody |-> 4, Pointers |-> 5, Enemy |-> 6]

RECURSIVE SumSeq(_)
SumSeq(s) == IF s = <<>> THEN 0 ELSE Head(s) + SumSeq(Tail(s))

RECURSIVE Flatten(_)
Flatten(ss) == IF ss = <<>> THEN <<>> ELSE Head(ss) \o Flatten(Tail(ss))

\* Component::COUNT
RECURSIVE COUNT(_)
COUNT(T) ==
    IF T \in Primitives THEN 1
    ELSE SumSeq([i \in 1..Len(Fields[T]) |-> COUNT(Fields[T][i])])

\* std::mem::size_of of a (packed) value type
RECURSIVE size_of(_)
size_of(T) ==
    IF T \in Primitives THEN PrimSize[T]
    ELSE SumSeq([i \in 1..Len(Fields[T]) |-> size_of(Fields[T][i])])

\* Component::sizes
RECURSIVE sizes(_)
sizes(T) ==
    IF T \in Primitives THEN <<PrimSize[T]>>
    ELSE IF size_of(T) = 0 THEN <<0>>
    ELSE Flatten([i \in 1..Len(Fields[T]) |-> sizes(Fields[T][i])])

\* Component::dismembered_type_count
dismembered_type_count(T) == COUNT(T)

\* Component::id
id(T) == IF T \in Primitives THEN 0 ELSE DerivedId[T]

Zeros(n) == [i \in 1..n |-> 0]

\* Signature::gen_ids for the declared value types sig (each with COUNT >= 1)
RECURSIVE gen_ids(_)
gen_ids(sig) ==
    IF sig = <<>> THEN <<>>
    ELSE <<id(Head(sig))>> \o Zeros(COUNT(Head(sig)) - 1) \o gen_ids(Tail(sig))

\* the record-groups an archetype is built from
Signatures ==
    { <<>>, <<"Player">>, <<"Vector2">>,
      <<"Vector2", "Player">>, <<"Player", "Vector2">>,
      <<"Vector2", "Vector2">>, <<"Player", "Player">> }

(***************************************************************************)
(* The state: one archetype and the allocations of its Columns.            *)
(***************************************************************************)
VARIABLES
    signature,        \* the record-group S of SimpleArchetype::new::<S>()
    heap_slack,       \* whether the memory right behind an allocation is
                      \* usable, so that a write past the end is read back
    entity_count,     \* SimpleArchetype.entity_count
    columns,          \* SimpleArchetype.columns
    type_to_col,      \* SimpleArchetype.type_to_col
    ret,              \* the last call and what it returned
    hist,             \* history: the row values passed to insert, in order
    misuse,           \* history: number of direct calls of create,
                      \* set_entity_count and insert_component
    out,              \* the sequence the last call handed back (the bytes
                      \* of Column::get, the Columns of get_all, sizes())
                      \* or, for fill, the bytes it was given
    column,           \* a Column used on its own: its allocation
    elem,             \* the element type its caller uses it with
    cap,              \* the capacity (in elements) its caller tracks
    next_id,          \* NEXT_ID of the compiler process of each crate
    pc,               \* where the derive expansion of each type stands
    ids               \* the identity each expansion holds (0: none yet)

\* the standalone Column
column_vars == <<column, elem, cap>>

\* the identity counters and the derive expansions
registry_vars == <<next_id, pc, ids>>

\* the archetype, but for the record of its last call
arch_vars == <<signature, heap_slack, entity_count, columns, type_to_col,
               hist, misuse>>

vars == <<signature, heap_slack, entity_count, columns, type_to_col,
          ret, hist, misuse, out, column_vars, registry_vars>>

(***************************************************************************)
(* Columns.                                                                *)
(***************************************************************************)
\* a byte of a fresh allocation, never written (bytes are 0..255)
Uninit == 0 - 1

\* n bytes never written
Pad(n) == [j \in 1..n |-> Uninit]

\* SimpleColumn::new_bytes_with_size.  The other fields are history: leaf,
\* the leaf width the Column was made for; nresize, the number of its
\* resizes; oob, whether a write passed the allocation; layout_ok, whether
\* the layout last handed to the allocator with this block had the size of
\* the block; freed, how often it was released
new_bytes_with_size(size) ==
    [alloc |-> size, data |-> Pad(size),
     leaf |-> size, nresize |-> 0,
     oob |-> FALSE, layout_ok |-> TRUE, freed |-> 0]

Min(a, b) == IF a <= b THEN a ELSE b

\* copy_nonoverlapping(src, data.add(off), Len(bytes)).  A write that passes
\* the allocation is undefined: with heap_slack the bytes past the end stay
\* readable behind the buffer, without it they are lost.
WriteAt(col, off, bytes) ==
    LET len   == Len(col.data)
        last  == IF heap_slack THEN off + Len(bytes)
                 ELSE Min(off + Len(bytes), col.alloc)
        past  == Len(bytes) > 0 /\ off + Len(bytes) > col.alloc
    IN IF last <= off THEN [col EXCEPT !.oob = @ \/ past]
       ELSE [col EXCEPT !.oob = @ \/ past,
                        !.data =
                SubSeq(col.data, 1, Min(off, len)) \o Pad(off - len)
                    \o SubSeq(bytes, 1, last - off)
                    \o SubSeq(col.data, last + 1, len)]

\* the n bytes found at byte offset off
ReadAt(col, off, n) ==
    [j \in 1..n |-> IF off + j <= Len(col.data) THEN col.data[off + j]
                    ELSE Uninit]

\* SimpleColumn::get::<T>(index) for a primitive T
ColumnGet(col, T, index) == ReadAt(col, index * PrimSize[T], PrimSize[T])

\* realloc handing back a fresh block without moving the old bytes
realloc_fresh_block(c, old_size, new_size, trusts_layout) ==
    [c EXCEPT !.alloc = new_size,
              !.data = Pad(new_size),
              !.nresize = @ + 1,
              !.layout_ok = (old_size = c.alloc)]

\* realloc(ptr, old_layout, new_size).  The allocation becomes new_size
\* bytes.  An old_layout that is not the layout of the live block is
\* undefined: the allocator either resizes the live block and keeps what it
\* holds (with heap_slack also the bytes written behind it), or
\* (trusts_layout) moves the old_size bytes it was told of to a new block.
realloc(c, old_size, new_size, trusts_layout) ==
    LET have == IF heap_slack THEN Len(c.data) ELSE c.alloc
        kept == Min(new_size, IF trusts_layout THEN old_size ELSE have)
        live == Min(kept, have)
    IN [c EXCEPT !.alloc = new_size,
                 !.data = SubSeq(c.data, 1, live) \o Pad(new_size - live),
                 !.nresize = @ + 1,
                 !.layout_ok = (old_size = c.alloc)]

\* SimpleColumn::resize_bytes
resize_bytes(c, old_cap, new_cap, trusts_layout) ==
    realloc(c, old_cap, new_cap, trusts_layout)

\* the element types the Column is used with on its own
ElemTypes == {"u8", "u32", "f64"}

\* the bytes of the element value v of type T
ElemBytes(v, T) == [j \in 1..PrimSize[T] |-> (v * 16 + j) % 256]

\* SimpleColumn::new::<T>(): room for Layout::array::<T>(4)
new(T) == [new_bytes_with_size(4 * PrimSize[T]) EXCEPT !.leaf = PrimSize[T]]

\* SimpleColumn::resize::<T>: both layouts are
\* Layout::array::<T>(cap * size_of::<T>())
resize(c, T, old_cap, new_cap, trusts_layout) ==
    realloc(c, (old_cap * PrimSize[T]) * PrimSize[T],
               (new_cap * PrimSize[T]) * PrimSize[T], trusts_layout)

\* insert writing at the byte offset index
insert_at_byte_index(c, T, index, bytes) == WriteAt(c, index, bytes)

\* SimpleColumn::insert::<T>(index, data): ptr::write at cast::<T>().add(index)
insert(c, T, index, bytes) == WriteAt(c, index * PrimSize[T], bytes)

\* the i elements that fill copies from the address of its argument: the
\* argument itself, then the memory behind it (bytes junk)
FillSource(T, bytes, i, junk) ==
    SubSeq(bytes \o [j \in 1..((i - 1) * PrimSize[T]) |-> junk],
           1, i * PrimSize[T])

\* the loop of SimpleColumn::fill: round i copies i elements to the element
\* index start + i
RECURSIVE fill_loop(_, _, _, _, _, _, _)
fill_loop(c, T, start, extension, i, bytes, junk) ==
    IF i = extension THEN c
    ELSE fill_loop(WriteAt(c, (start + i) * PrimSize[T],
                           FillSource(T, bytes, i, junk)),
                   T, start, extension, i + 1, bytes, junk)

\* SimpleColumn::fill::<T>(start, end, data) for start <= end
fill(c, T, start, end, bytes, junk) ==
    fill_loop(c, T, start, end - start, 0, bytes, junk)

(***************************************************************************)
(* The archetype.                                                          *)
(***************************************************************************)
\* Result values; val carries the payload of Ok
Ok(x)  == [kind |-> "Ok", val |-> x]
Err(e) == [kind |-> e, val |-> 0 - 1]
Panic  == [kind |-> "Panic", val |-> 0 - 1]

ComponentNotFound == "ComponentNotFound"
IndexOutOfBounds == "IndexOutOfBounds"
FieldPositionOverlapsNextComponent == "FieldPositionOverlapsNextComponent"

\* usize::MAX, the value a wrapping `0 - 1` leaves; it is beyond TLC's
\* integers, and only its being larger than every index is used
USIZE_MAX == 2147483647

\* the loop of SimpleArchetype::map, from the cursor pair (left, right);
\* overflow_checks: whether the build panics on integer overflow
RECURSIVE map_scan(_, _, _, _)
map_scan(T, left, right, overflow_checks) ==
    IF ~(left <= right) THEN Err(ComponentNotFound)
    ELSE IF left >= Len(type_to_col) THEN Panic
    ELSE IF type_to_col[left + 1] = id(T) THEN Ok(left)
    ELSE IF right >= Len(type_to_col) THEN Panic
    ELSE IF type_to_col[right + 1] = id(T) THEN Ok(right)
    ELSE IF right = 0
         THEN IF overflow_checks THEN Panic
              ELSE map_scan(T, left + 1, USIZE_MAX, overflow_checks)
    ELSE map_scan(T, left + 1, right - 1, overflow_checks)

\* SimpleArchetype::map
map(T, overflow_checks) ==
    IF Len(type_to_col) = 0
    THEN IF overflow_checks THEN Panic
         ELSE map_scan(T, 0, USIZE_MAX, overflow_checks)
    ELSE map_scan(T, 0, Len(type_to_col) - 1, overflow_checks)

\* get returning the first Column of T whatever the position
get_first_column(cols, T, field_position, overflow_checks) ==
    LET m == map(T, overflow_checks) IN
    IF m.kind = "Panic" THEN Panic
    ELSE IF m.kind # "Ok" THEN Err(ComponentNotFound)
    ELSE IF m.val + field_position >= Len(cols)
         THEN Err(IndexOutOfBounds)
    ELSE IF m.val + field_position >= m.val + dismembered_type_count(T)
         THEN Err(FieldPositionOverlapsNextComponent)
    ELSE Ok(m.val)

\* get with the bound of the Column list compared by > instead of >=
get_bound_off_by_one(cols, T, field_position, overflow_checks) ==
    LET m == map(T, overflow_checks) IN
    IF m.kind = "Panic" THEN Panic
    ELSE IF m.kind # "Ok" THEN Err(ComponentNotFound)
    ELSE IF m.val + field_position > Len(cols)
         THEN Err(IndexOutOfBounds)
    ELSE IF m.val + field_position >= m.val + dismembered_type_count(T)
         THEN Err(FieldPositionOverlapsNextComponent)
    ELSE Ok(m.val + field_position)

\* SimpleArchetype::get over the Column list cols: the index of the Column
\* it returns
get(cols, T, field_position, overflow_checks) ==
    LET m == map(T, overflow_checks) IN
    IF m.kind = "Panic" THEN Panic
    ELSE IF m.kind # "Ok" THEN Err(ComponentNotFound)
    ELSE IF m.val + field_position >= Len(cols)
         THEN Err(IndexOutOfBounds)
    ELSE IF m.val + field_position >= m.val + dismembered_type_count(T)
         THEN Err(FieldPositionOverlapsNextComponent)
    ELSE Ok(m.val + field_position)

\* get_mut testing the leaf count before the bound of the Column list
get_mut_overlap_first(cols, T, field_position, overflow_checks) ==
    LET m == map(T, overflow_checks) IN
    IF m.kind = "Panic" THEN Panic
    ELSE IF m.kind # "Ok" THEN Err(ComponentNotFound)
    ELSE IF m.val + field_position >= m.val + dismembered_type_count(T)
         THEN Err(FieldPositionOverlapsNextComponent)
    ELSE IF m.val + field_position >= Len(cols)
         THEN Err(IndexOutOfBounds)
    ELSE Ok(m.val + field_position)

\* SimpleArchetype::get_mut
get_mut(cols, T, field_position, overflow_checks) ==
    LET m == map(T, overflow_checks) IN
    IF m.kind = "Panic" THEN Panic
    ELSE IF m.kind # "Ok" THEN Err(ComponentNotFound)
    ELSE IF m.val + field_position >= Len(cols)
         THEN Err(IndexOutOfBounds)
    ELSE IF m.val + field_position >= m.val + dismembered_type_count(T)
         THEN Err(FieldPositionOverlapsNextComponent)
    ELSE Ok(m.val + field_position)

\* SimpleArchetype::has (1 for true); a panic of map unwinds through it
has(T, overflow_checks) ==
    LET m == map(T, overflow_checks) IN
    IF m.kind = "Panic" THEN Panic
    ELSE Ok(IF m.kind = "Ok" THEN 1 ELSE 0)

\* SimpleArchetype::get_all and get_all_mut: res.val is the index of the
\* first Column, slice the Column indices of the slice handed back.  The
\* slice is `&mut []`, of length 0: storing the first Column into it is
\* out of bounds and panics.
get_all(cols, T, overflow_checks) ==
    LET m == map(T, overflow_checks) IN
    IF m.kind = "Panic" THEN [res |-> Panic, slice |-> <<>>]
    ELSE IF m.kind # "Ok"
         THEN [res |-> Err(ComponentNotFound), slice |-> <<>>]
    ELSE IF Len(cols) > m.val THEN [res |-> Panic, slice |-> <<>>]
    ELSE [res |-> Ok(m.val), slice |-> <<>>]

\* SimpleArchetype::query and query_mut for the record-group S
query(cols, S, overflow_checks) == get_all(cols, "Vector2", overflow_checks)

\* a & b on unsigned integers
RECURSIVE BitAnd(_, _)
BitAnd(a, b) ==
    IF a = 0 \/ b = 0 THEN 0
    ELSE (a % 2) * (b % 2) + 2 * BitAnd(a \div 2, b \div 2)

\* column_must_resize without the floor of 4 rows
column_must_resize_no_floor(ec) ==
    ec # 0 /\ BitAnd(ec, ec - 1) = 0

\* SimpleArchetype::column_must_resize at row count ec
column_must_resize(ec) ==
    IF ec < 4 THEN FALSE
    ELSE ec # 0 /\ BitAnd(ec, ec - 1) = 0

\* the bytes of the value of type T held by field f of the row value v
ComponentBytes(v, f, T) ==
    [j \in 1..size_of(T) |-> (v * 64 + f * 16 + j) % 256]

\* the copy loop of insert_component: leaf `index` of the value goes to
\* Column col + index at the pointer data.add(ec)
RECURSIVE copy_leaves(_, _, _, _, _, _, _)
copy_leaves(cols, col, szs, bytes, ec, index, last_index) ==
    IF index = Len(szs) THEN [cols |-> cols, res |-> Ok(0)]
    ELSE IF col + index >= Len(cols) THEN [cols |-> cols, res |-> Panic]
    ELSE LET value == szs[index + 1]
             chunk == SubSeq(bytes, last_index + 1, last_index + value)
         IN copy_leaves(
                [cols EXCEPT ![col + index + 1] = WriteAt(@, ec, chunk)],
                col, szs, bytes, ec, index + 1, last_index + value)

\* SimpleArchetype::insert_component at row count ec
insert_component(cols, ec, T, bytes, overflow_checks) ==
    LET m == map(T, overflow_checks) IN
    IF m.kind = "Panic" THEN [cols |-> cols, res |-> Panic]
    ELSE IF m.kind # "Ok" THEN [cols |-> cols, res |-> Err(ComponentNotFound)]
    ELSE copy_leaves(cols, m.val, sizes(T), bytes, ec, 0, 0)

\* insert_components, first line: insert_component(..).unwrap() per field
RECURSIVE insert_fields(_, _, _, _, _)
insert_fields(cols, ec, f, v, overflow_checks) ==
    IF f > Len(signature) THEN [cols |-> cols, res |-> Ok(0)]
    ELSE LET T == signature[f]
             r == insert_component(cols, ec, T, ComponentBytes(v, f, T),
                                   overflow_checks)
         IN IF r.res.kind # "Ok" THEN [cols |-> r.cols, res |-> Panic]
            ELSE insert_fields(r.cols, ec, f + 1, v, overflow_checks)

\* the growth loop over the leaves of one declared type
RECURSIVE grow_leaves(_, _, _, _, _, _)
grow_leaves(cols, T, index, ec, overflow_checks, trusts_layout) ==
    IF index = Len(sizes(T)) THEN [cols |-> cols, res |-> Ok(0)]
    ELSE LET g == get_mut(cols, T, index, overflow_checks)
             value == sizes(T)[index + 1]
         IN IF g.kind # "Ok" THEN [cols |-> cols, res |-> Panic]
            ELSE grow_leaves(
                    [cols EXCEPT ![g.val + 1] =
                        resize_bytes(@, ec * value, (ec * value) * 2,
                                     trusts_layout)],
                    T, index + 1, ec, overflow_checks, trusts_layout)

\* the growth loop over the declared types
RECURSIVE grow_fields(_, _, _, _, _)
grow_fields(cols, f, ec, overflow_checks, trusts_layout) ==
    IF f > Len(signature) THEN [cols |-> cols, res |-> Ok(0)]
    ELSE LET r == grow_leaves(cols, signature[f], 0, ec, overflow_checks,
                              trusts_layout)
         IN IF r.res.kind # "Ok" THEN r
            ELSE grow_fields(r.cols, f + 1, ec, overflow_checks,
                             trusts_layout)

\* insert_components incrementing the row count before the writes
insert_components_count_first(v, overflow_checks, trusts_layout) ==
    LET ec == entity_count + 1
        w  == insert_fields(columns, ec, 1, v, overflow_checks) IN
    IF w.res.kind # "Ok"
    THEN [cols |-> w.cols, ec |-> ec, res |-> Panic]
    ELSE IF column_must_resize(ec)
         THEN LET g == grow_fields(w.cols, 1, ec, overflow_checks,
                                   trusts_layout)
              IN [cols |-> g.cols, ec |-> ec, res |-> g.res]
         ELSE [cols |-> w.cols, ec |-> ec, res |-> Ok(0)]

\* Signature::insert_components: what it leaves in the archetype
insert_components(v, overflow_checks, trusts_layout) ==
    LET w == insert_fields(columns, entity_count, 1, v, overflow_checks) IN
    IF w.res.kind # "Ok"
    THEN [cols |-> w.cols, ec |-> entity_count, res |-> Panic]
    ELSE LET ec == entity_count + 1 IN
         IF column_must_resize(ec)
         THEN LET g == grow_fields(w.cols, 1, ec, overflow_checks,
                                   trusts_layout)
              IN [cols |-> g.cols, ec |-> ec, res |-> g.res]
         ELSE [cols |-> w.cols, ec |-> ec, res |-> Ok(0)]

\* SimpleArchetype::initialize_column
initialize_column(cols, T) ==
    cols \o [k \in 1..Len(sizes(T)) |-> new_bytes_with_size(sizes(T)[k])]

RECURSIVE create_fields(_, _)
create_fields(cols, f) ==
    IF f > Len(signature) THEN cols
    ELSE create_fields(initialize_column(cols, signature[f]), f + 1)

\* create without the test of the row count
create_unguarded(cols, ec) == create_fields(cols, 1)

\* Signature::create
create(cols, ec) == IF ec = 0 THEN create_fields(cols, 1) ELSE cols

\* dealloc(ptr, layout): the block is released; the allocator is told a
\* block of layout_size bytes.  A layout that is not the block's is
\* undefined, and nothing of the block is looked at afterwards.
dealloc(c, layout_size) ==
    [c EXCEPT !.freed = @ + 1, !.layout_ok = (layout_size = c.alloc)]

\* Drop for SimpleArchetype: every Column's buffer goes to dealloc with
\* Layout::new::<u8>(), a layout of 1 byte
drop(cols) == [i \in 1..Len(cols) |-> dealloc(cols[i], PrimSize["u8"])]

(***************************************************************************)
(* Type identities: the counter of the derive macro.                       *)
(***************************************************************************)
\* the crates that derive Component; each is expanded by a compiler process
\* of its own, which loads the macro and its static NEXT_ID afresh
Crates == {"lynx", "archetype_stress"}

\* the derive expansions (one per composite type) and the crate of each
CrateOf ==
    [lynx_Player |-> "lynx", lynx_Vector2 |-> "lynx",
     lynx_PhysicsMaterial |-> "lynx",
     stress_Vector2 |-> "archetype_stress",
     stress_Transform |-> "archetype_stress"]

Derived == DOMAIN CrateOf

\* fetch_add that loads the counter and does not store the sum
fetch_add_load_only(counter, n) == [old |-> counter, new |-> counter]

\* AtomicU32::fetch_add(n, Relaxed): one indivisible read-modify-write
fetch_add(counter, n) == [old |-> counter, new |-> counter + n]

\* the types a caller asks the archetype for
Asked == {"f32", "Player", "Vector2", "Enemy"}

Call(op, T, p, res) == [op |-> op, T |-> T, p |-> p, res |-> res]

\* SimpleArchetype::new::<S>()
Init ==
    /\ signature \in Signatures
    /\ heap_slack \in BOOLEAN
    /\ entity_count = 0
    /\ type_to_col = gen_ids(signature)
    /\ columns = create(<<>>, 0)
    /\ ret = Call("new", "-", 0, Ok(0))
    /\ hist = <<>>
    /\ misuse = 0
    /\ out = <<>>
    /\ column = new("u32")
    /\ elem = "u32"
    /\ cap = 1
    /\ next_id = [u \in Crates |-> 1]
    /\ pc = [T \in Derived |-> "parse"]
    /\ ids = [T \in Derived |-> 0]

\* the values the row inserted at row count ec may carry
RowVals(ec) == IF ec < MaxVaried THEN Vals ELSE {1}

\* archetype.insert(S { .. })
Insert ==
    /\ out' = <<>>
    /\ UNCHANGED <<column_vars, registry_vars>>
    /\ entity_count < MaxRows
    /\ Len(hist) < MaxRows
    /\ \E v \in RowVals(entity_count),
          overflow_checks \in BOOLEAN, trusts_layout \in BOOLEAN :
          \E r \in {insert_components(v, overflow_checks, trusts_layout)} :
          /\ columns' = r.cols
          /\ entity_count' = r.ec
          /\ ret' = Call("insert", "-", 0, r.res)
          /\ hist' = Append(hist, v)
    /\ UNCHANGED <<signature, heap_slack, type_to_col, misuse>>

\* archetype.get::<T>(field_position)
Get ==
    /\ out' = <<>>
    /\ UNCHANGED <<column_vars, registry_vars>>
    /\ \E T \in Asked, p \in 0..MaxPos, overflow_checks \in BOOLEAN :
          ret' = Call("get", T, p, get(columns, T, p, overflow_checks))
    /\ UNCHANGED <<signature, heap_slack, entity_count, columns,
                   type_to_col, hist, misuse>>

\* archetype.get_mut::<T>(field_position)
GetMut ==
    /\ out' = <<>>
    /\ UNCHANGED <<column_vars, registry_vars>>
    /\ \E T \in Asked, p \in 0..MaxPos, overflow_checks \in BOOLEAN :
          ret' = Call("get_mut", T, p, get_mut(columns, T, p, overflow_checks))
    /\ UNCHANGED <<signature, heap_slack, entity_count, columns,
                   type_to_col, hist, misuse>>

\* archetype.map::<T>()
Map ==
    /\ out' = <<>>
    /\ UNCHANGED <<column_vars, registry_vars>>
    /\ \E T \in Asked, overflow_checks \in BOOLEAN :
          ret' = Call("map", T, 0, map(T, overflow_checks))
    /\ UNCHANGED <<signature, heap_slack, entity_count, columns,
                   type_to_col, hist, misuse>>

\* archetype.has::<T>()
Has ==
    /\ out' = <<>>
    /\ UNCHANGED <<column_vars, registry_vars>>
    /\ \E T \in Asked, overflow_checks \in BOOLEAN :
          ret' = Call("has", T, 0, has(T, overflow_checks))
    /\ UNCHANGED <<signature, heap_slack, entity_count, columns,
                   type_to_col, hist, misuse>>

\* archetype.insert_component::<T>(&value), called directly
InsertComponent ==
    /\ out' = <<>>
    /\ UNCHANGED <<column_vars, registry_vars>>
    /\ misuse < MaxMisuse
    /\ \E T \in Asked, overflow_checks \in BOOLEAN :
          \E r \in {insert_component(columns, entity_count, T,
                                      ComponentBytes(1, 0, T),
                                      overflow_checks)} :
             /\ columns' = r.cols
             /\ ret' = Call("insert_component", T, 0, r.res)
    /\ misuse' = misuse + 1
    /\ UNCHANGED <<signature, heap_slack, entity_count, type_to_col, hist>>

\* S::create(&mut archetype), called again
Create ==
    /\ out' = <<>>
    /\ UNCHANGED <<column_vars, registry_vars>>
    /\ misuse < MaxMisuse
    /\ columns' = create(columns, entity_count)
    /\ ret' = Call("create", "-", 0, Ok(0))
    /\ misuse' = misuse + 1
    /\ UNCHANGED <<signature, heap_slack, entity_count, type_to_col, hist>>

\* archetype.set_entity_count(count)
SetEntityCount ==
    /\ out' = <<>>
    /\ UNCHANGED <<column_vars, registry_vars>>
    /\ misuse < MaxMisuse
    /\ \E count \in 0..MaxCount : entity_count' = count
    /\ ret' = Call("set_entity_count", "-", 0, Ok(0))
    /\ misuse' = misuse + 1
    /\ UNCHANGED <<signature, heap_slack, columns, type_to_col, hist>>

\* the record-groups a caller queries with
QuerySigs ==
    [OnlyPlayer |-> <<"Player">>,
     OnlyVector2 |-> <<"Vector2">>,
     PlayerAndVector2 |-> <<"Player", "Vector2">>]

\* archetype.get_all::<T>() and archetype.get_all_mut::<T>()
GetAll ==
    /\ \E T \in Asked, overflow_checks \in BOOLEAN,
          op \in {"get_all", "get_all_mut"} :
          \E r \in {get_all(columns, T, overflow_checks)} :
          /\ ret' = Call(op, T, 0, r.res)
          /\ out' = r.slice
    /\ UNCHANGED <<arch_vars, column_vars, registry_vars>>

\* archetype.query::<S>() and archetype.query_mut::<S>()
Query ==
    /\ \E S \in DOMAIN QuerySigs, overflow_checks \in BOOLEAN,
          op \in {"query", "query_mut"} :
          \E r \in {query(columns, QuerySigs[S], overflow_checks)} :
          /\ ret' = Call(op, S, 0, r.res)
          /\ out' = r.slice
    /\ UNCHANGED <<arch_vars, column_vars, registry_vars>>

\* <T as Component>::COUNT and <T as Component>::sizes()
Sizes ==
    /\ \E T \in Types :
          /\ ret' = Call("sizes", T, 0, Ok(COUNT(T)))
          /\ out' = sizes(T)
    /\ UNCHANGED <<arch_vars, column_vars, registry_vars>>

\* the archetype used as meant: rows go in through insert
Next ==
    \/ Insert
    \/ Get
    \/ GetMut
    \/ Map
    \/ Has
    \/ GetAll
    \/ Query
    \/ Sizes

Spec == Init /\ [][Next]_vars

\* every public operation, in any order
NextPublic ==
    \/ Insert
    \/ InsertComponent
    \/ Create
    \/ SetEntityCount

SpecPublic == Init /\ [][NextPublic]_vars

\* the archetype goes out of scope
Drop ==
    /\ ret.op # "drop"
    /\ columns' = drop(columns)
    /\ ret' = Call("drop", "-", 0, Ok(0))
    /\ out' = <<>>
    /\ UNCHANGED <<signature, heap_slack, entity_count, type_to_col, hist,
                   misuse, column_vars, registry_vars>>

\* insert on an archetype that is still in scope
InsertAlive == ret.op # "drop" /\ Insert

\* the life of an archetype: rows go in, then it is dropped
NextLifetime ==
    \/ InsertAlive
    \/ Drop

SpecLifetime == Init /\ [][NextLifetime]_vars

(***************************************************************************)
(* A Column used on its own, as column_test::create_column does: its       *)
(* caller tracks the capacity and hands it to resize.                      *)
(***************************************************************************)
\* let mut col = SimpleColumn::new::<T>(), documented as room for 1 member
InitColumn ==
    /\ signature = <<>>
    /\ heap_slack \in BOOLEAN
    /\ entity_count = 0
    /\ type_to_col = <<>>
    /\ columns = <<>>
    /\ hist = <<>>
    /\ misuse = 0
    /\ out = <<>>
    /\ elem \in ElemTypes
    /\ column = new(elem)
    /\ cap = 1
    /\ ret = Call("Column::new", elem, 0, Ok(0))
    /\ next_id = [u \in Crates |-> 1]
    /\ pc = [T \in Derived |-> "parse"]
    /\ ids = [T \in Derived |-> 0]

\* col.insert::<T>(index, v) at an index within the capacity
ColInsert ==
    /\ \E index \in 0..(cap - 1), v \in Vals :
          /\ column' = insert(column, elem, index, ElemBytes(v, elem))
          /\ ret' = Call("Column::insert", elem, index, Ok(v))
    /\ out' = <<>>
    /\ UNCHANGED <<arch_vars, elem, cap, registry_vars>>

\* col.get::<T>(index)
ColGet ==
    /\ \E index \in 0..(cap - 1) :
          /\ out' = ColumnGet(column, elem, index)
          /\ ret' = Call("Column::get", elem, index, Ok(0))
    /\ UNCHANGED <<arch_vars, column_vars, registry_vars>>

\* col.resize::<T>(cap, new_cap)
ColResize ==
    /\ column.nresize < MaxResizes
    /\ \E new_cap \in 1..MaxCap, trusts_layout \in BOOLEAN :
          /\ column' = resize(column, elem, cap, new_cap, trusts_layout)
          /\ cap' = new_cap
          /\ ret' = Call("Column::resize", elem, 0, Ok(0))
    /\ out' = <<>>
    /\ UNCHANGED <<arch_vars, elem, registry_vars>>

\* col.resize_bytes(cap * size_of::<T>(), new_cap * size_of::<T>())
ColResizeBytes ==
    /\ column.nresize < MaxResizes
    /\ \E new_cap \in 1..MaxCap, trusts_layout \in BOOLEAN :
          /\ column' = resize_bytes(column, cap * PrimSize[elem],
                                    new_cap * PrimSize[elem], trusts_layout)
          /\ cap' = new_cap
          /\ ret' = Call("Column::resize_bytes", elem, 0, Ok(0))
    /\ out' = <<>>
    /\ UNCHANGED <<arch_vars, elem, registry_vars>>

\* col.fill::<T>(start, end, v) with start <= end within the capacity
ColFill ==
    /\ \E start \in 0..cap, v \in Vals, junk \in Junk :
          \E end \in start..cap :
             /\ column' = fill(column, elem, start, end,
                               ElemBytes(v, elem), junk)
             /\ ret' = Call("Column::fill", elem, start, Ok(end))
             /\ out' = ElemBytes(v, elem)
    /\ UNCHANGED <<arch_vars, elem, cap, registry_vars>>

NextColumn ==
    \/ ColInsert
    \/ ColGet
    \/ ColResize
    \/ ColResizeBytes
    \/ ColFill

SpecColumn == InitColumn /\ [][NextColumn]_vars

\* the Column driven as the documentation and column_test do: created with
\* new::<T>(), the capacity tracked from 1, resized by resize::<T> only
NextResizeChain ==
    \/ ColInsert
    \/ ColGet
    \/ ColResize

SpecResizeChain == InitColumn /\ [][NextResizeChain]_vars

(***************************************************************************)
(* The derive expansions of the composite types, run by any number of      *)
(* threads of the compiler process of their crate.                         *)
(***************************************************************************)
InitRegistry ==
    /\ signature = <<>>
    /\ heap_slack = FALSE
    /\ entity_count = 0
    /\ type_to_col = <<>>
    /\ columns = <<>>
    /\ hist = <<>>
    /\ misuse = 0
    /\ out = <<>>
    /\ elem = "u32"
    /\ column = new(elem)
    /\ cap = 1
    /\ ret = Call("new", "-", 0, Ok(0))
    /\ next_id = [u \in Crates |-> 1]
    /\ pc = [T \in Derived |-> "parse"]
    /\ ids = [T \in Derived |-> 0]

\* component_derive, line 13: parse_macro_input
Parse(T) ==
    /\ pc[T] = "parse"
    /\ pc' = [pc EXCEPT ![T] = "fetch_add"]
    /\ UNCHANGED <<arch_vars, ret, out, column_vars, next_id, ids>>

\* component_derive, line 16: let id = NEXT_ID.fetch_add(1, Relaxed)
FetchAdd(T) ==
    /\ pc[T] = "fetch_add"
    /\ \E r \in {fetch_add(next_id[CrateOf[T]], 1)} :
          /\ ids' = [ids EXCEPT ![T] = r.old]
          /\ next_id' = [next_id EXCEPT ![CrateOf[T]] = r.new]
    /\ pc' = [pc EXCEPT ![T] = "quote"]
    /\ UNCHANGED <<arch_vars, ret, out, column_vars>>

\* component_derive, lines 59-95: the impl is emitted with `fn id() { #id }`
Quote(T) ==
    /\ pc[T] = "quote"
    /\ pc' = [pc EXCEPT ![T] = "done"]
    /\ UNCHANGED <<arch_vars, ret, out, column_vars, next_id, ids>>

\* T::id() of a derived type, in the program that links the crates
IdOfDerived ==
    /\ \A U \in Derived : pc[U] = "done"
    /\ \E T \in Derived : ret' = Call("id", T, 0, Ok(ids[T]))
    /\ out' = <<>>
    /\ UNCHANGED <<arch_vars, column_vars, registry_vars>>

\* P::id() of a primitive type
IdOfPrimitive ==
    /\ \E P \in Primitives : ret' = Call("id", P, 0, Ok(id(P)))
    /\ out' = <<>>
    /\ UNCHANGED <<arch_vars, column_vars, registry_vars>>

NextRegistry ==
    \/ \E T \in Derived : Parse(T)
    \/ \E T \in Derived : FetchAdd(T)
    \/ \E T \in Derived : Quote(T)
    \/ IdOfDerived
    \/ IdOfPrimitive

SpecRegistry == InitRegistry /\ [][NextRegistry]_vars

(***************************************************************************)
(* Vocabulary of the properties.                                           *)
(***************************************************************************)
\* the declared value types are pairwise distinct
Distinct(sig) == \A i, j \in 1..Len(sig) : i # j => sig[i] # sig[j]

\* the Column index at which the run of field f starts: the sum of COUNT
\* over the types declared before it
Offset(sig, f) == SumSeq([i \in 1..(f - 1) |-> COUNT(sig[i])])

\* the primitive types of the leaves of T, in leaf order
RECURSIVE leaves(_)
leaves(T) ==
    IF T \in Primitives THEN <<T>>
    ELSE Flatten([i \in 1..Len(Fields[T]) |-> leaves(Fields[T][i])])

\* leaf k of a value of type T given by its bytes
LeafBytes(bytes, T, k) ==
    LET off == SumSeq(SubSeq(sizes(T), 1, k))
    IN SubSeq(bytes, off + 1, off + sizes(T)[k + 1])

\* T's identity occurs in type_to_col
Occurs(T) == \E i \in 1..Len(type_to_col) : type_to_col[i] = id(T)

IsPow2(n) == \E k \in 0..n : 2 ^ k = n

\* growth is due at the row count n
GrowthDue(n) == n >= 4 /\ IsPow2(n)

IsGet == ret.op \in {"get", "get_mut"}

(***************************************************************************)
(* C1.  For a record-group of pairwise distinct composite types, after     *)
(* n >= 1 calls of insert on a fresh archetype, every leaf k of every      *)
(* declared type T reads back, at every row r < n of the Column            *)
(* get::<T>(k), as leaf k of the T value passed to the (r+1)-th insert.    *)
(* The code writes row r at byte offset r instead of r * leaf_size, so the *)
(* second row overwrites the first: this statement is violated.            *)
(***************************************************************************)
C1_InsertReadBack ==
    (misuse = 0 /\ Distinct(signature) /\ Len(hist) >= 1) =>
        \A f \in 1..Len(signature) :
            LET T == signature[f] IN
            \A k \in 0..(COUNT(T) - 1) : \A r \in 0..(Len(hist) - 1) :
                LET g == get(columns, T, k, TRUE) IN
                /\ g.kind = "Ok"
                /\ ColumnGet(columns[g.val + 1], leaves(T)[k + 1], r)
                      = LeafBytes(ComponentBytes(hist[r + 1], f, T), T, k)

(***************************************************************************)
(* C2.  For a record-group of pairwise distinct composite types, get and   *)
(* get_mut of a declared type T at a position p < COUNT(T) succeed and     *)
(* return the Column at index (sum of COUNT over the types declared before *)
(* T) + p.                                                                 *)
(***************************************************************************)
C2_FieldAddressing ==
    (IsGet /\ Distinct(signature)) =>
        \A f \in 1..Len(signature) :
            (ret.T = signature[f] /\ ret.p < COUNT(ret.T)) =>
                ret.res = Ok(Offset(signature, f) + ret.p)

\* get::<B>(0) and get_mut::<A>(1) of [A (2 leaves), B (1 leaf)] were called
C2_Witness ==
    /\ signature = <<"Vector2", "Player">>
    /\ \/ ret = Call("get", "Player", 0, Ok(2))
       \/ ret = Call("get_mut", "Vector2", 1, Ok(1))

(***************************************************************************)
(* C3.  map never panics: it returns Ok(i) with type_to_col[i] = T::id()   *)
(* when T's identity occurs in type_to_col and ComponentNotFound when it   *)
(* does not, so that get, get_mut and has never panic either.  The code    *)
(* panics for an absent type when type_to_col has length 0 or 1: this      *)
(* statement is violated.                                                  *)
(***************************************************************************)
C3_MapTotal ==
    (ret.op \in {"map", "get", "get_mut", "has"}) =>
        /\ ret.res.kind # "Panic"
        /\ (ret.op = "map" /\ Occurs(ret.T)) =>
                /\ ret.res.kind = "Ok"
                /\ type_to_col[ret.res.val + 1] = id(ret.T)
        /\ (ret.op = "map" /\ ~Occurs(ret.T)) =>
                ret.res = Err(ComponentNotFound)
        /\ (IsGet /\ ~Occurs(ret.T)) => ret.res = Err(ComponentNotFound)

(***************************************************************************)
(* C4, as claimed.  For every type T present in the archetype and every    *)
(* field_position >= COUNT(T), get and get_mut fail with                   *)
(* FieldPositionOverlapsNextComponent, also when T is the last declared    *)
(* type.                                                                   *)
(***************************************************************************)
C4_OverlapAlways ==
    (IsGet /\ Occurs(ret.T) /\ ret.p >= COUNT(ret.T)) =>
        ret.res = Err(FieldPositionOverlapsNextComponent)

(***************************************************************************)
(* C4, amended.  For every type T present in the archetype and every       *)
(* field_position >= COUNT(T), get and get_mut fail: with                  *)
(* FieldPositionOverlapsNextComponent when map::<T>() + field_position is  *)
(* below columns.len(), and with IndexOutOfBounds when it is not.          *)
(***************************************************************************)
C4_OverlapInsideColumns ==
    (IsGet /\ Occurs(ret.T) /\ ret.p >= COUNT(ret.T)) =>
        ret.res = IF map(ret.T, TRUE).val + ret.p < Len(columns)
                  THEN Err(FieldPositionOverlapsNextComponent)
                  ELSE Err(IndexOutOfBounds)

\* get::<A>(2) of [A (2 leaves), B (1 leaf)] was called
C4_Witness ==
    /\ signature = <<"Vector2", "Player">>
    /\ ret = Call("get", "Vector2", 2, Err(FieldPositionOverlapsNextComponent))

(***************************************************************************)
(* C5.  For every type T present in the archetype, get and get_mut fail    *)
(* with IndexOutOfBounds exactly when map::<T>() + p >= columns.len().     *)
(***************************************************************************)
C5_IndexOutOfBounds ==
    (IsGet /\ Occurs(ret.T)) =>
        (ret.res = Err(IndexOutOfBounds)
            <=> map(ret.T, TRUE).val + ret.p >= Len(columns))

\* get::<B>(1) of [A (2 leaves), B (1 leaf)] was called
C5_Witness ==
    /\ signature = <<"Vector2", "Player">>
    /\ ret = Call("get", "Player", 1, Err(IndexOutOfBounds))

(***************************************************************************)
(* C6.  Whenever growth is due after an insertion that brings the row      *)
(* count to n, every Column of the archetype is resized exactly once, to   *)
(* 2 * n * leaf_size bytes.  With a type declared in two fields the growth *)
(* loop resizes the first run twice and the others never: this statement   *)
(* is violated.                                                            *)
(***************************************************************************)
C6_GrowthResizesAll ==
    [][(ret'.op = "insert" /\ entity_count' = entity_count + 1
            /\ GrowthDue(entity_count')) =>
        /\ Len(columns') = Len(columns)
        /\ \A i \in 1..Len(columns) :
              /\ columns'[i].nresize = columns[i].nresize + 1
              /\ columns'[i].alloc = 2 * entity_count' * columns'[i].leaf]_vars

(***************************************************************************)
(* C7.  When rows are inserted one by one into a fresh archetype,          *)
(* column_must_resize() is true exactly at the row counts that are powers  *)
(* of two and at least 4.                                                  *)
(***************************************************************************)
C7_GrowthTrigger ==
    column_must_resize(entity_count)
        <=> (entity_count >= 4 /\ IsPow2(entity_count))

\* eight rows were inserted
C7_Witness ==
    /\ ret.op = "insert"
    /\ entity_count = 8
    /\ Len(hist) = 8
    /\ column_must_resize(entity_count)

(***************************************************************************)
(* C8.  Each call of insert increases the row count by exactly 1, after    *)
(* the row's component writes (they go to the offset of the old count) and *)
(* before the growth check (growth happens when the new count is due); a   *)
(* bare insert_component leaves the row count unchanged; after n inserts   *)
(* into a fresh archetype the row count is n.                              *)
(***************************************************************************)
C8_RowCount ==
    /\ [](misuse = 0 => entity_count = Len(hist))
    /\ [][/\ ret'.op = "insert_component" => entity_count' = entity_count
          /\ ret'.op = "insert" =>
                /\ entity_count' = entity_count + 1
                /\ (\E i \in 1..Len(columns) :
                        columns'[i].nresize # columns[i].nresize)
                      <=> (signature # <<>> /\ GrowthDue(entity_count + 1))
                /\ (signature # <<>> /\ Distinct(signature)
                        /\ entity_count < columns[1].alloc) =>
                      ReadAt(columns'[1], entity_count, 1)
                        = SubSeq(ComponentBytes(hist'[Len(hist')], 1,
                                                signature[1]), 1, 1)]_vars

\* an insert that followed a bare insert_component
C8_Witness ==
    /\ ret.op = "insert"
    /\ misuse = 1
    /\ Len(hist) = 4
    /\ entity_count = 4
    /\ signature # <<>>

(***************************************************************************)
(* C9.  In every state reachable by the public operations,                 *)
(* columns.len() == type_to_col.len().  A second S::create on an archetype *)
(* whose row count is 0 pushes every Column again: this statement is       *)
(* violated.                                                               *)
(***************************************************************************)
C9_ColumnsMatchIds == Len(columns) = Len(type_to_col)

(***************************************************************************)
(* C10.  The record-group's create on an archetype that holds at least one *)
(* row is a no-op: the number of Columns and every Column's buffer are     *)
(* unchanged.                                                              *)
(***************************************************************************)
C10_CreateNoOp ==
    [][(ret'.op = "create" /\ entity_count >= 1) =>
            (columns' = columns /\ entity_count' = entity_count)]_vars

\* create was called on an archetype with rows and Columns
C10_Witness ==
    /\ ret.op = "create"
    /\ entity_count >= 1
    /\ Len(hist) >= 1
    /\ Len(columns) >= 1

(***************************************************************************)
(* C11.  On a Column used on its own, insert::<T>(i, v) at an index within *)
(* the capacity makes get::<T>(i) return the bytes of v, and get::<T>(j)   *)
(* returns what it returned before for every other index j within the     *)
(* capacity.                                                               *)
(***************************************************************************)
C11_ColumnRoundTrip ==
    [][(ret'.op = "Column::insert") =>
        /\ ColumnGet(column', elem, ret'.p) = ElemBytes(ret'.res.val, elem)
        /\ \A j \in 0..(cap - 1) :
              j # ret'.p =>
                 ColumnGet(column', elem, j) = ColumnGet(column, elem, j)]_vars

\* insert::<f64>(1, v) was called on a Column whose index 0 holds another
\* value
C11_Witness ==
    /\ ret = Call("Column::insert", "f64", 1, Ok(1))
    /\ elem = "f64"
    /\ cap >= 2
    /\ ColumnGet(column, elem, 0) = ElemBytes(2, elem)
    /\ ColumnGet(column, elem, 1) = ElemBytes(1, elem)

(***************************************************************************)
(* C12.  When resize::<T> or resize_bytes takes a Column from the capacity *)
(* a to a larger capacity b, every element at an index below a is read     *)
(* back unchanged after the resize, whichever way the allocator moves the  *)
(* block.                                                                  *)
(***************************************************************************)
C12_ResizePreserves ==
    [][(ret'.op \in {"Column::resize", "Column::resize_bytes"}
            /\ cap' > cap) =>
        \A j \in 0..(cap - 1) :
            ColumnGet(column', elem, j) = ColumnGet(column, elem, j)]_vars

\* a second resize took a Column of f64 that holds a value from the
\* capacity 1 to the capacity 2
C12_Witness ==
    /\ ret.op \in {"Column::resize", "Column::resize_bytes"}
    /\ elem = "f64"
    /\ cap = 2
    /\ column.nresize = 2
    /\ ColumnGet(column, elem, 0) = ElemBytes(2, elem)

(***************************************************************************)
(* C13.  After fill::<T>(start, end, v) with start <= end within the       *)
(* capacity, every index in [start, end) reads v and every other index     *)
(* reads what it read before.  The loop copies i elements in round i, so   *)
(* the index start is never written and indices from end on are: this      *)
(* statement is violated.                                                  *)
(***************************************************************************)
C13_FillRange ==
    [][(ret'.op = "Column::fill") =>
        \A j \in 0..(2 * MaxCap) :
            ColumnGet(column', elem, j) =
                IF ret'.p <= j /\ j < ret'.res.val THEN out'
                ELSE ColumnGet(column, elem, j)]_vars

(***************************************************************************)
(* C14.  get_all::<T>() and get_all_mut::<T>() on an archetype that        *)
(* contains T return, without panicking, the Columns                       *)
(* map::<T>() .. map::<T>() + COUNT(T) in leaf order, and return           *)
(* ComponentNotFound when T is absent (unless map itself panics, which is  *)
(* the matter of C3).  The code stores the Columns into a slice of length  *)
(* 0 and panics whenever T is present: this statement is violated.         *)
(***************************************************************************)
C14_GetAllRun ==
    (ret.op \in {"get_all", "get_all_mut"}) =>
        IF Occurs(ret.T)
        THEN /\ ret.res.kind = "Ok"
             /\ type_to_col[ret.res.val + 1] = id(ret.T)
             /\ out = [k \in 1..COUNT(ret.T) |-> ret.res.val + k - 1]
        ELSE \/ ret.res = Err(ComponentNotFound)
             \/ map(ret.T, TRUE) = Panic

\* the Column indices of the runs of the declared types S, in order
RECURSIVE RunsOf(_)
RunsOf(S) ==
    IF S = <<>> THEN <<>>
    ELSE LET m == map(Head(S), TRUE).val
         IN [k \in 1..COUNT(Head(S)) |-> m + k - 1] \o RunsOf(Tail(S))

(***************************************************************************)
(* C15.  query::<S>() and query_mut::<S>() return the Columns of the       *)
(* components of the record-group S and only those, and return an error    *)
(* when the archetype lacks a component of S; the calls that panic (the    *)
(* matter of C3 and C14) are left aside.  The code ignores S and asks      *)
(* get_all for lynx's Vector2: this statement is violated.                 *)
(***************************************************************************)
C15_QueryProjection ==
    (ret.op \in {"query", "query_mut"} /\ ret.res.kind # "Panic") =>
        LET S == QuerySigs[ret.T] IN
        IF \A i \in 1..Len(S) : Occurs(S[i])
        THEN ret.res.kind = "Ok" /\ out = RunsOf(S)
        ELSE ret.res.kind # "Ok"

(***************************************************************************)
(* C16.  For every primitive type T, COUNT(T) = 1 and sizes(T) is the one  *)
(* byte size of T; for every composite type T, COUNT(T) is the sum of      *)
(* COUNT over its fields and sizes(T) is the concatenation of sizes over   *)
(* its fields, in field order.  sizes() of a composite of size 0 is [0]    *)
(* whatever its fields: this statement is violated.                        *)
(***************************************************************************)
C16_CountAndSizes ==
    (ret.op = "sizes") =>
        LET T == ret.T IN
        IF T \in Primitives
        THEN ret.res = Ok(1) /\ out = <<PrimSize[T]>>
        ELSE /\ ret.res =
                  Ok(SumSeq([i \in 1..Len(Fields[T]) |-> COUNT(Fields[T][i])]))
             /\ out = Flatten([i \in 1..Len(Fields[T]) |-> sizes(Fields[T][i])])

(***************************************************************************)
(* C17.  sizes(T).len() = COUNT(T) for every value type T; a composite     *)
(* made of markers only has COUNT = 0 and an empty sizes().  sizes() of    *)
(* the marker type is [0], of length 1: this statement is violated.        *)
(***************************************************************************)
C17_SizesLenIsCount ==
    (ret.op = "sizes") =>
        /\ Len(out) = ret.res.val
        /\ (ret.T \in Composites /\ size_of(ret.T) = 0) =>
              (ret.res.val = 0 /\ out = <<>>)

\* the expansion of T has taken its identity from the counter
Registered(T) == pc[T] \in {"quote", "done"}

(***************************************************************************)
(* C18.  Under every interleaving of the derive expansions that share one  *)
(* identity counter, the expansions of distinct types obtain different     *)
(* values and no increment is lost: the counter stands at 1 plus the       *)
(* number of registrations made on it.                                     *)
(***************************************************************************)
C18_ConcurrentRegistration ==
    /\ \A T, U \in Derived :
          (T # U /\ CrateOf[T] = CrateOf[U] /\ Registered(T) /\ Registered(U))
              => ids[T] # ids[U]
    /\ \A u \in Crates :
          next_id[u] =
              1 + Cardinality({T \in Derived : CrateOf[T] = u /\ Registered(T)})

\* three expansions of one crate have registered, the first declared type
\* last, and two of them are still between fetch_add and the emitted code
C18_Witness ==
    /\ pc["lynx_Player"] = "quote"
    /\ pc["lynx_Vector2"] = "quote"
    /\ pc["lynx_PhysicsMaterial"] = "done"
    /\ ids["lynx_PhysicsMaterial"] = 1
    /\ ids["lynx_Vector2"] = 2
    /\ ids["lynx_Player"] = 3
    /\ next_id["lynx"] = 4

(***************************************************************************)
(* C19.  Type identities are stable and unique: the composite types of a   *)
(* program receive the identities 1, 2, 3, ... in the order of their       *)
(* registration, no two of them the same one; 0 is what id() returns for   *)
(* every primitive type and is never given to a composite type; id() of a  *)
(* type returns the value given at its registration.  The counter lives in *)
(* the compiler process of each crate and starts at 1 in each, so the      *)
(* types of two crates linked into one program share identities: this      *)
(* statement is violated.                                                  *)
(***************************************************************************)
C19_IdentitiesUnique ==
    /\ \A T, U \in Derived :
          (T # U /\ Registered(T) /\ Registered(U)) => ids[T] # ids[U]
    /\ \A T \in Derived : Registered(T) => ids[T] >= 1
    /\ \A u \in Crates :
          {ids[T] : T \in {U \in Derived : CrateOf[U] = u /\ Registered(U)}}
              = 1..(next_id[u] - 1)
    /\ (ret.op = "id" /\ ret.T \in Primitives) => ret.res = Ok(0)
    /\ (ret.op = "id" /\ ret.T \in Derived) => ret.res = Ok(ids[ret.T])

(***************************************************************************)
(* C20.  insert_component::<T>(v) on an archetype that contains T, at the  *)
(* row count n, writes leaf k of v (the size_k bytes of v behind the       *)
(* leaves before it) into the Column map::<T>() + k at the byte offset     *)
(* n * size_k, and writes nothing else.  The code writes at the byte       *)
(* offset n: this statement is violated.                                   *)
(***************************************************************************)
C20_WriteOffsets ==
    [][(ret'.op = "insert_component" /\ ret'.res.kind = "Ok") =>
        LET T == ret'.T
            m == map(T, TRUE).val
            n == entity_count
            bytes == ComponentBytes(1, 0, T)
        IN \A i \in 1..Len(columns) :
              LET k == i - 1 - m IN
              IF 0 <= k /\ k < COUNT(T)
              THEN LET size_k == sizes(T)[k + 1] IN
                   /\ ReadAt(columns'[i], n * size_k, size_k)
                         = LeafBytes(bytes, T, k)
                   /\ \A j \in 0..(Len(columns'[i].data) - 1) :
                         (j < n * size_k \/ j >= (n + 1) * size_k) =>
                            ReadAt(columns'[i], j, 1) = ReadAt(columns[i], j, 1)
              ELSE columns'[i] = columns[i]]_vars

(***************************************************************************)
(* C21.  For every sequence of insert calls on a fresh archetype, every    *)
(* byte range that insert_component writes into a Column lies within the   *)
(* Column's allocated byte size at the time of the write.  A Column is     *)
(* made with room for one leaf and first grows when the row count reaches  *)
(* 4, so the second row is written past the allocation: this statement is  *)
(* violated.                                                               *)
(***************************************************************************)
C21_WritesInBounds ==
    (misuse = 0) => \A i \in 1..Len(columns) : ~columns[i].oob

(***************************************************************************)
(* C22.  At every growth step performed by insert, the old byte size that  *)
(* the archetype hands to resize_bytes for a Column is the byte size the   *)
(* Column's allocation has at that call (the one asked for at              *)
(* initialize_column or at the Column's previous growth step).  The first  *)
(* growth, at the row count 4, tells 4 * leaf_size for an allocation of    *)
(* leaf_size bytes: this statement is violated.                            *)
(***************************************************************************)
C22_GrowthToldTrueSize ==
    (misuse = 0) =>
        \A i \in 1..Len(columns) :
            columns[i].nresize > 0 => columns[i].layout_ok

(***************************************************************************)
(* C23.  For a record-group that declares one composite type in more than  *)
(* one field, an insert at the row count n writes leaf k of the value of   *)
(* the field f into the Column (sum of COUNT over the fields before f) + k *)
(* at the row n, and a growth step resizes every Column.  map finds the    *)
(* first run of the type for every field, so all the fields are written    *)
(* to that run, one over the other: this statement is violated.            *)
(***************************************************************************)
C23_RepeatedTypeRuns ==
    [][(ret'.op = "insert" /\ misuse = 0 /\ ~Distinct(signature)) =>
        /\ ret'.res.kind = "Ok"
        /\ \A f \in 1..Len(signature) :
              LET T == signature[f] IN
              \A k \in 0..(COUNT(T) - 1) :
                 LET size_k == sizes(T)[k + 1] IN
                 ReadAt(columns'[Offset(signature, f) + k + 1],
                        entity_count * size_k, size_k)
                    = LeafBytes(ComponentBytes(hist'[Len(hist')], f, T), T, k)
        /\ GrowthDue(entity_count') =>
              \A i \in 1..Len(columns) :
                 columns'[i].nresize = columns[i].nresize + 1]_vars

(***************************************************************************)
(* C24.  When an archetype is dropped, every Column buffer it owns is      *)
(* released exactly once, with a layout whose size is the buffer's         *)
(* allocated byte size.  The layout handed to dealloc is that of one u8    *)
(* whatever the buffer's size: this statement is violated.                 *)
(***************************************************************************)
C24_DropReleasesLayout ==
    (ret.op = "drop") =>
        \A i \in 1..Len(columns) :
            /\ columns[i].freed = 1
            /\ columns[i].layout_ok

\* T is one of the value types the record-group declares
Declared(T) == \E f \in 1..Len(signature) : signature[f] = T

(***************************************************************************)
(* C25.  has::<T>() returns true only if T is one of the value types       *)
(* declared by the record-group of the archetype; for an archetype built   *)
(* from composite types only, has::<P>() is false and get::<P>(0) fails    *)
(* with ComponentNotFound for every primitive type P (the calls in which   *)
(* map panics, the matter of C3, are left aside).  Every primitive type    *)
(* has the identity 0, which type_to_col holds for the second and later    *)
(* leaves of a composite type: this statement is violated.                 *)
(***************************************************************************)
C25_HasOnlyDeclared ==
    (ret.res.kind # "Panic") =>
        /\ (ret.op = "has" /\ ret.res = Ok(1)) => Declared(ret.T)
        /\ (ret.T \in Primitives
                /\ \A f \in 1..Len(signature) : signature[f] \in Composites) =>
              /\ ret.op = "has" => ret.res = Ok(0)
              /\ (ret.op = "get" /\ ret.p = 0) =>
                    ret.res = Err(ComponentNotFound)

(***************************************************************************)
(* C26.  For a Column created with new::<T>() and driven through a chain   *)
(* resize::<T>(1, c1), resize::<T>(c1, c2), ..., the byte size of the old  *)
(* layout handed to the allocator at each resize is the byte size of the   *)
(* live allocation, for every element size of T.  new::<T>() allocates     *)
(* 4 * size_of::<T>() bytes and resize::<T>(1, c1) tells                   *)
(* size_of::<T>() * size_of::<T>() bytes, which agree for 4-byte types     *)
(* only: this statement is violated.                                       *)
(***************************************************************************)
C26_ResizeChainOldLayout ==
    (column.nresize > 0) => column.layout_ok

=============================================================================
